---- MODULE Spec2Model ----
(***************************************************************************)
(* Model of ports/hotspot/src/cpu/ppc/vm/vmreg_ppc.cpp:                    *)
(*   VMRegImpl::set_regName()  fills the static table regName[] with the   *)
(*                             names of the physical registers;            *)
(*   VMRegImpl::as_Register()  the reverse lookup, a stub.                 *)
(* The architecture constants ConcreteRegisterImpl::max_gpr, max_fpr and   *)
(* number_of_registers are defined outside this file, so the model draws   *)
(* them from bounded sets.  The spec's MaxGPR, MaxFPR, MaxVirtualRegisters *)
(* are read as these three constants, name for name.                       *)
(***************************************************************************)
EXTENDS Integers, Sequences, FiniteSets, TLC

\* Largest table size (number_of_registers) the model explores.
MaxRegs == 4
\* Largest number of times set_regName is invoked in one run of the process.
MaxCalls == 2

VARIABLES
  max_gpr,              \* ConcreteRegisterImpl::max_gpr
  max_fpr,              \* ConcreteRegisterImpl::max_fpr
  number_of_registers,  \* ConcreteRegisterImpl::number_of_registers
  regName,              \* VMRegImpl::regName[], the static name table
  pc,                   \* "idle", "gpr", "fpr", "tail", "trapped"
  i,                    \* set_regName's cursor (line 31)
  reg,                  \* set_regName's local reg (line 32)
  freg,                 \* set_regName's local freg (line 37)
  calls,                \* invocations of set_regName started
  completed,            \* invocations of set_regName that returned
  written,              \* history: the slots the current invocation stored to, in order
  firstTable,           \* history: the table as the first returned invocation left it
  trapSite,             \* "none", or the function whose Unimplemented() fired
  trapIndex,            \* the value of i when set_regName trapped
  lookupIdx,            \* the virtual register as_Register was last called on
  lookupResult          \* the Register as_Register returned, if it ever returned

vars == <<max_gpr, max_fpr, number_of_registers, regName, pc, i, reg, freg,
          calls, completed, written, firstTable, trapSite, trapIndex,
          lookupIdx, lookupResult>>

consts == <<max_gpr, max_fpr, number_of_registers>>

----------------------------------------------------------------------------
\* Registers are their encodings; names are <<bank, encoding>> pairs.

\* A slot of the static array nobody stored to (a NULL const char*).
NoName == <<"null", 0>>

\* No register handle (nothing returned, local not yet constructed): the
\* encoding -1 that no register has.
NoReg == -1

\* ::as_Register(int encoding)
as_Register(encoding) == encoding

\* ::as_FloatRegister(int encoding)
as_FloatRegister(encoding) == encoding

\* RegisterImpl::successor()
Register_successor(r) == as_Register(r + 1)

\* FloatRegisterImpl::successor()
FloatRegister_successor(f) == as_FloatRegister(f + 1)

\* RegisterImpl::name()
Register_name(r) == <<"r", r>>

\* FloatRegisterImpl::name()
FloatRegister_name(f) == <<"f", f>>

\* The k-th integer register in successor order, counted from as_Register(0).
RECURSIVE NthRegister(_)
NthRegister(k) == IF k = 0 THEN as_Register(0)
                  ELSE Register_successor(NthRegister(k - 1))

\* The k-th floating-point register in successor order, from as_FloatRegister(0).
RECURSIVE NthFloatRegister(_)
NthFloatRegister(k) == IF k = 0 THEN as_FloatRegister(0)
                       ELSE FloatRegister_successor(NthFloatRegister(k - 1))

Max(a, b) == IF a >= b THEN a ELSE b

----------------------------------------------------------------------------
\* The pieces of set_regName, line by line.

\* line 32 with reg kept from the previous invocation (a static local)
EntryReg_stale == IF reg = NoReg THEN as_Register(0) ELSE reg

\* line 32: Register reg = ::as_Register(0);
EntryReg == as_Register(0)

\* line 37 with freg kept from the previous invocation (a static local)
EntryFreg_stale == IF freg = NoReg THEN as_FloatRegister(0) ELSE freg

\* line 37: FloatRegister freg = ::as_FloatRegister(0);
EntryFreg == as_FloatRegister(0)

\* line 33: i < ConcreteRegisterImpl::max_gpr
GprLoopCond == i < max_gpr

\* line 38's condition taking max_fpr for a count of registers
FprLoopCond_count == i < max_gpr + max_fpr

\* line 38's condition running to the end of the table
FprLoopCond_all == i < number_of_registers

\* line 38: i < ConcreteRegisterImpl::max_fpr
FprLoopCond == i < max_fpr

\* line 42's condition off by one
TailLoopCond_short == i + 1 < number_of_registers

\* line 42: i < ConcreteRegisterImpl::number_of_registers
TailLoopCond == i < number_of_registers

\* line 34 storing the successor's name
GprStore_next(t, idx, r) == [t EXCEPT ![idx] = Register_name(Register_successor(r))]

\* line 34: regName[i++] = reg->name();
GprStore(t, idx, r) == [t EXCEPT ![idx] = Register_name(r)]

\* line 39 numbering the float registers by table index
FprStore_index(t, idx, f) == [t EXCEPT ![idx] = FloatRegister_name(idx)]

\* line 39: regName[i++] = freg->name();
FprStore(t, idx, f) == [t EXCEPT ![idx] = FloatRegister_name(f)]

----------------------------------------------------------------------------
Init ==
  /\ number_of_registers \in 0..MaxRegs
  /\ max_gpr \in 0..MaxRegs
  /\ max_fpr \in 0..MaxRegs
     \* regName is declared with number_of_registers slots: the constants of
     \* a build keep every store of set_regName inside the array.
  /\ Max(max_gpr, max_fpr) <= number_of_registers
  /\ regName = [k \in 0..(number_of_registers - 1) |-> NoName]
  /\ pc = "idle"
  /\ i = 0
  /\ reg = NoReg
  /\ freg = NoReg
  /\ calls = 0
  /\ completed = 0
  /\ written = <<>>
  /\ firstTable = regName
  /\ trapSite = "none"
  /\ trapIndex = 0
  /\ lookupIdx = 0
  /\ lookupResult = NoReg

\* set_regName is entered: lines 29-32.
set_regName_enter ==
  /\ pc = "idle"
  /\ calls < MaxCalls
  /\ calls' = calls + 1
  /\ i' = 0
  /\ reg' = EntryReg
  /\ written' = <<>>
  /\ pc' = "gpr"
  /\ UNCHANGED <<consts, regName, freg, completed, firstTable, trapSite,
                 trapIndex, lookupIdx, lookupResult>>

\* One iteration of the first loop: lines 33-36.
set_regName_gpr_step ==
  /\ pc = "gpr"
  /\ GprLoopCond
  /\ regName' = GprStore(regName, i, reg)
  /\ written' = Append(written, i)
  /\ i' = i + 1
  /\ reg' = Register_successor(reg)
  /\ UNCHANGED <<consts, pc, freg, calls, completed, firstTable, trapSite,
                 trapIndex, lookupIdx, lookupResult>>

\* The first loop ends and freg is constructed: lines 33, 37.
set_regName_gpr_exit ==
  /\ pc = "gpr"
  /\ ~GprLoopCond
  /\ freg' = EntryFreg
  /\ pc' = "fpr"
  /\ UNCHANGED <<consts, regName, i, reg, calls, completed, written,
                 firstTable, trapSite, trapIndex, lookupIdx, lookupResult>>

\* One iteration of the second loop: lines 38-41.
set_regName_fpr_step ==
  /\ pc = "fpr"
  /\ FprLoopCond
  /\ regName' = FprStore(regName, i, freg)
  /\ written' = Append(written, i)
  /\ i' = i + 1
  /\ freg' = FloatRegister_successor(freg)
  /\ UNCHANGED <<consts, pc, reg, calls, completed, firstTable, trapSite,
                 trapIndex, lookupIdx, lookupResult>>

\* The second loop ends: line 38.
set_regName_fpr_exit ==
  /\ pc = "fpr"
  /\ ~FprLoopCond
  /\ pc' = "tail"
  /\ UNCHANGED <<consts, regName, i, reg, freg, calls, completed, written,
                 firstTable, trapSite, trapIndex, lookupIdx, lookupResult>>

\* Unimplemented() reports the error and stops the VM; nothing runs after it.
Unimplemented(site) ==
  /\ pc' = "trapped"
  /\ trapSite' = site

\* The third loop finds a slot left: lines 42-44.
set_regName_tail_trap ==
  /\ pc = "tail"
  /\ TailLoopCond
  /\ Unimplemented("set_regName")
  /\ trapIndex' = i
  /\ UNCHANGED <<consts, regName, i, reg, freg, calls, completed, written,
                 firstTable, lookupIdx, lookupResult>>

\* The third loop finds no slot left and set_regName returns: lines 42, 45.
set_regName_return ==
  /\ pc = "tail"
  /\ ~TailLoopCond
  /\ pc' = "idle"
  /\ completed' = completed + 1
  /\ firstTable' = IF completed = 0 THEN regName ELSE firstTable
  /\ UNCHANGED <<consts, regName, i, reg, freg, calls, written, trapSite,
                 trapIndex, lookupIdx, lookupResult>>

\* as_Register returning the integer register of an index below max_gpr
as_Register_inverse(idx) ==
  /\ pc = "idle"
  /\ lookupIdx' = idx
  /\ IF idx < max_gpr
       THEN /\ lookupResult' = as_Register(idx)
            /\ UNCHANGED <<pc, trapSite>>
       ELSE /\ Unimplemented("as_Register")
            /\ UNCHANGED lookupResult
  /\ UNCHANGED <<consts, regName, i, reg, freg, calls, completed, written,
                 firstTable, trapIndex>>

\* VMRegImpl::as_Register() called on the virtual register idx: lines 47-50.
VMRegImpl_as_Register(idx) ==
  /\ pc = "idle"
  /\ lookupIdx' = idx
  /\ Unimplemented("as_Register")
  /\ UNCHANGED <<consts, regName, i, reg, freg, calls, completed, written,
                 firstTable, trapIndex, lookupResult>>

Next ==
  \/ set_regName_enter
  \/ set_regName_gpr_step
  \/ set_regName_gpr_exit
  \/ set_regName_fpr_step
  \/ set_regName_fpr_exit
  \/ set_regName_tail_trap
  \/ set_regName_return
  \/ \E idx \in 0..(number_of_registers - 1) : VMRegImpl_as_Register(idx)

Spec == Init /\ [][Next]_vars

----------------------------------------------------------------------------
\* Where an invocation of set_regName stands.

\* Some invocation has got past the first loop.
PastGprLoop == pc \in {"fpr", "tail"} \/ completed >= 1 \/ trapSite = "set_regName"

\* Some invocation has got past the second loop.
PastFprLoop == pc = "tail" \/ completed >= 1 \/ trapSite = "set_regName"

\* No invocation is running and the last one returned or trapped.
RunOver == (pc = "idle" /\ completed >= 1) \/ trapSite = "set_regName"

\* The table is Built: some invocation of set_regName has returned.
Built == completed >= 1

\* The slots that hold a floating-point register's name.
FloatSlots == {k \in DOMAIN regName : regName[k][1] = "f"}

\* as_Register has been called.
LookupCalled == trapSite = "as_Register" \/ lookupResult # NoReg

----------------------------------------------------------------------------
\* C1: once the first loop of set_regName has run, every slot k below max_gpr
\* holds the name of the k-th integer register in successor order, counted
\* from as_Register(0); slot 0 holds the name of as_Register(0).
C1_GprSlotsInSuccessorOrder ==
  PastGprLoop =>
    /\ \A k \in 0..(max_gpr - 1) : regName[k] = Register_name(NthRegister(k))
    /\ max_gpr >= 1 => regName[0] = Register_name(as_Register(0))

C1_Witness == pc = "fpr" /\ calls = 1 /\ max_gpr >= 2 /\ i = max_gpr

C4_AsRegisterAlwaysTraps ==
  [][/\ lookupResult' = NoReg
     /\ (pc = "idle" /\ pc' # "gpr") => (pc' = "trapped" /\ trapSite' = "as_Register")
     /\ (trapSite = "none" /\ trapSite' = "as_Register") => regName' = regName]_vars

C4_Witness == trapSite = "as_Register" /\ Built /\ lookupIdx >= 1 /\ lookupIdx < max_gpr

\* C5: once set_regName is over the table has number_of_registers entries
\* and every one of them, the slots past the physical registers included,
\* holds a name.
C5_NoHoleInTable ==
  RunOver =>
    /\ Cardinality(DOMAIN regName) = number_of_registers
    /\ \A k \in DOMAIN regName : regName[k] # NoName

\* C6: with the table built, as_Register called on an index below max_gpr
\* returns the integer register whose name is in that slot of the table.
C6_RoundTrip ==
  (Built /\ LookupCalled /\ lookupIdx < max_gpr) =>
    /\ lookupResult # NoReg
    /\ Register_name(lookupResult) = regName[lookupIdx]

\* C7: after the first invocation of set_regName has returned, the table is
\* slot for slot the one that invocation left, at every point of every later
\* invocation and after it.
C7_RebuildIsIdentical == Built => regName = firstTable

C7_Witness == completed = 2 /\ max_gpr >= 1 /\ max_fpr > max_gpr

\* C8: once Built the table stays Built, and no step taken in the Built
\* state, by set_regName or by as_Register, changes a slot of the table.
C8_BuiltIsStable ==
  [][Built => (Built' /\ regName' = regName)]_vars

C8_Witness == Built /\ calls = 2 /\ pc = "fpr" /\ i >= 1 /\ max_fpr > max_gpr

\* C9: when max_gpr + max_fpr <= number_of_registers, no step changes a slot
\* with index at or past max_gpr + max_fpr.
C9_StackSlotsUntouched ==
  [][max_gpr + max_fpr <= number_of_registers =>
       \A k \in (max_gpr + max_fpr)..(number_of_registers - 1) :
         regName'[k] = regName[k]]_vars

C9_Witness ==
  /\ trapSite = "set_regName"
  /\ max_gpr + max_fpr < number_of_registers
  /\ Len(written) >= 2

\* C10: the cursor i runs through all three loops without being reset: an
\* invocation stores to slots 0, 1, 2, ... in that order, once each, and when
\* it is over it has stored to exactly [0, max(max_gpr, max_fpr)), the
\* floating-point names being the max(0, max_fpr - max_gpr) slots
\* [max_gpr, max_fpr).
C10_SlotsWrittenByCursor ==
  /\ \A k \in 1..Len(written) : written[k] = k - 1
  /\ pc \in {"gpr", "fpr", "tail"} => i = Len(written)
  /\ RunOver =>
       /\ Len(written) = Max(max_gpr, max_fpr)
       /\ FloatSlots = max_gpr..(max_fpr - 1)
       /\ Cardinality(FloatSlots) = Max(0, max_fpr - max_gpr)

C10_Witness == trapSite = "set_regName" /\ max_fpr >= 1 /\ max_fpr < max_gpr

====
